---- MODULE Spec2Model ----
(***************************************************************************)
(* A model of src/app.js: the colour page that fetches ./data/rgb.txt,     *)
(* parses it into colour records (name, hex, hue, saturation, brightness,  *)
(* rgb), plots a 360-bucket hue histogram and a saturation/brightness      *)
(* scatter, and re-plots both on every input event of the filter box.      *)
(*                                                                         *)
(* Strings are sequences of one-character strings, so that split, trim,    *)
(* startsWith, substr, parseInt and the regular-expression test are        *)
(* computed rather than assumed.  Numbers that JavaScript holds as doubles *)
(* are exact rationals [num, den] in lowest terms with den > 0: a double   *)
(* differs from the rational it stands for by rounding only, which can     *)
(* move a hue lying exactly half way between two buckets to the lower one  *)
(* and changes no range and no count.                                      *)
(***************************************************************************)
EXTENDS Integers, Sequences, FiniteSets, TLC

VARIABLES
    pc,                \* position of fetchDataAndRender: init, awaitFetch, awaitText, loaded, failed
    response,          \* outcome of fetch(url): none, pending, ok, notOk, rejected
    body,              \* outcome of response.text(): none, pending, resolved, rejected
    data,              \* the text response.text() resolved with
    fetchCount,        \* number of fetch(url) calls issued
    logCount,          \* number of console.error calls of line 22
    colorData,         \* the array parseColorData returned (closure of the listener)
    listenerInstalled, \* whether filterInput has the 'input' listener
    filterValue,       \* filterInput.value
    hueBarDiv,         \* the hue-bar container: number of plots and the plotted counts
    satBrightDiv,      \* the sat-bright-dist container: number of plots and the plotted points
    event,             \* the event delivered last
    calls,             \* the outward calls made while handling the last event, in order
    nInputs,           \* number of input events delivered
    rgbIn,             \* conversion check: the channels the hex code was written from
    hexIn,             \* conversion check: the hex code handed to the record builder
    derived            \* conversion check: the record built from hexIn

vars == <<pc, response, body, data, fetchCount, logCount, colorData, listenerInstalled,
          filterValue, hueBarDiv, satBrightDiv, event, calls, nInputs, rgbIn, hexIn, derived>>

pageVars == <<pc, response, body, data, fetchCount, logCount, colorData, listenerInstalled,
              filterValue, hueBarDiv, satBrightDiv, event, calls, nInputs>>

hsvVars == <<rgbIn, hexIn, derived>>

----------------------------------------------------------------------------
(* Bounds of the model. *)

\* The most lines a served text has.
MaxLines == 2

\* The most input events delivered to the filter box in one run.
MaxInputs == 3

\* The conversion is checked on channels within EdgeWidth of 0 and of 255,
\* and on the sixteen channels whose two hex digits are equal.
EdgeWidth == 31

----------------------------------------------------------------------------
(* Exact rational arithmetic. *)

Abs(x) == IF x < 0 THEN -x ELSE x

RECURSIVE GCD(_, _)
GCD(a, b) == IF b = 0 THEN a ELSE GCD(b, a % b)

\* n/d in lowest terms, d # 0.
Q(n, d) ==
    LET s == IF d < 0 THEN -1 ELSE 1
        g == GCD(Abs(n), Abs(d))
    IN  [num |-> (s * n) \div g, den |-> (s * d) \div g]

RInt(n) == [num |-> n, den |-> 1]
RAdd(p, q) == Q(p.num * q.den + q.num * p.den, p.den * q.den)
RSub(p, q) == Q(p.num * q.den - q.num * p.den, p.den * q.den)
RMul(p, q) == Q(p.num * q.num, p.den * q.den)
RDiv(p, q) == Q(p.num * q.den, p.den * q.num)
RLt(p, q) == p.num * q.den < q.num * p.den
RLe(p, q) == p.num * q.den <= q.num * p.den
RMax(p, q) == IF RLt(p, q) THEN q ELSE p
RMin(p, q) == IF RLt(q, p) THEN q ELSE p

----------------------------------------------------------------------------
(* String helpers: String.prototype.split, trim, startsWith, replace, substr. *)

Tab == "\t"
Newline == "\n"
Whitespace == {" ", "\t", "\n", "\r"}

\* The index of the first occurrence of character c in s, 0 when absent.
RECURSIVE IndexOf(_, _, _)
IndexOf(s, c, from) ==
    IF from > Len(s) THEN 0
    ELSE IF s[from] = c THEN from
    ELSE IndexOf(s, c, from + 1)

\* s.split(sep): always at least one piece; an empty s gives one empty piece.
RECURSIVE Split(_, _)
Split(s, sep) ==
    LET i == IndexOf(s, sep, 1)
    IN  IF i = 0 THEN <<s>>
        ELSE <<SubSeq(s, 1, i - 1)>> \o Split(SubSeq(s, i + 1, Len(s)), sep)

RECURSIVE TrimStart(_)
TrimStart(s) ==
    IF s # <<>> /\ Head(s) \in Whitespace THEN TrimStart(Tail(s)) ELSE s

RECURSIVE TrimEnd(_)
TrimEnd(s) ==
    IF s # <<>> /\ s[Len(s)] \in Whitespace THEN TrimEnd(SubSeq(s, 1, Len(s) - 1)) ELSE s

Trim(s) == TrimEnd(TrimStart(s))

StartsWith(s, c) == s # <<>> /\ Head(s) = c

\* s.replace(c, ''): the first occurrence of c removed.
ReplaceFirst(s, c) ==
    LET i == IndexOf(s, c, 1)
    IN  IF i = 0 THEN s ELSE SubSeq(s, 1, i - 1) \o SubSeq(s, i + 1, Len(s))

\* s.substr(start, length), start counted from 0.
Substr(s, start, length) ==
    SubSeq(s, start + 1, IF start + length > Len(s) THEN Len(s) ELSE start + length)

----------------------------------------------------------------------------
(* hexToRgb: lines 64-71. *)

\* The value of one hexadecimal digit, as parseInt(_, 16) reads it.
HexVal(c) ==
    CASE c = "0" -> 0  [] c = "1" -> 1  [] c = "2" -> 2  [] c = "3" -> 3
      [] c = "4" -> 4  [] c = "5" -> 5  [] c = "6" -> 6  [] c = "7" -> 7
      [] c = "8" -> 8  [] c = "9" -> 9
      [] c \in {"a", "A"} -> 10  [] c \in {"b", "B"} -> 11  [] c \in {"c", "C"} -> 12
      [] c \in {"d", "D"} -> 13  [] c \in {"e", "E"} -> 14  [] c \in {"f", "F"} -> 15

\* parseInt(s, 16) of a string of hexadecimal digits.
RECURSIVE ParseInt16(_)
ParseInt16(s) ==
    IF s = <<>> THEN 0
    ELSE 16 * ParseInt16(SubSeq(s, 1, Len(s) - 1)) + HexVal(s[Len(s)])

hexToRgb(hex) ==
    LET hexCode == ReplaceFirst(hex, "#")
    IN  [r |-> ParseInt16(Substr(hexCode, 0, 2)),
         g |-> ParseInt16(Substr(hexCode, 2, 2)),
         b |-> ParseInt16(Substr(hexCode, 4, 2))]

----------------------------------------------------------------------------
(* rgbToHsv: lines 80-100. *)

\* A plausible slip: the red branch without the "+ 6" for g < b.
rgbToHsvNoWrap(r, g, b) ==
    LET rNorm == Q(r, 255)
        gNorm == Q(g, 255)
        bNorm == Q(b, 255)
        max == RMax(RMax(rNorm, gNorm), bNorm)
        min == RMin(RMin(rNorm, gNorm), bNorm)
        d == RSub(max, min)
        s == IF max = RInt(0) THEN RInt(0) ELSE RDiv(d, max)
        h6 == IF max = rNorm THEN RDiv(RSub(gNorm, bNorm), d)
              ELSE IF max = gNorm THEN RAdd(RDiv(RSub(bNorm, rNorm), d), RInt(2))
              ELSE RAdd(RDiv(RSub(rNorm, gNorm), d), RInt(4))
        h == IF max = min THEN RInt(0) ELSE RDiv(h6, RInt(6))
    IN  [h |-> h, s |-> s, v |-> max]

\* A plausible slip: the green and blue offsets exchanged.
rgbToHsvSwapped(r, g, b) ==
    LET rNorm == Q(r, 255)
        gNorm == Q(g, 255)
        bNorm == Q(b, 255)
        max == RMax(RMax(rNorm, gNorm), bNorm)
        min == RMin(RMin(rNorm, gNorm), bNorm)
        d == RSub(max, min)
        s == IF max = RInt(0) THEN RInt(0) ELSE RDiv(d, max)
        h6 == IF max = rNorm
              THEN RAdd(RDiv(RSub(gNorm, bNorm), d),
                        IF RLt(gNorm, bNorm) THEN RInt(6) ELSE RInt(0))
              ELSE IF max = gNorm THEN RAdd(RDiv(RSub(bNorm, rNorm), d), RInt(4))
              ELSE RAdd(RDiv(RSub(rNorm, gNorm), d), RInt(2))
        h == IF max = min THEN RInt(0) ELSE RDiv(h6, RInt(6))
    IN  [h |-> h, s |-> s, v |-> max]

\* h is a fraction of a turn (0 <= h < 1); the switch takes the first case
\* equal to max, in the order red, green, blue.
rgbToHsv(r, g, b) ==
    LET rNorm == Q(r, 255)
        gNorm == Q(g, 255)
        bNorm == Q(b, 255)
        max == RMax(RMax(rNorm, gNorm), bNorm)
        min == RMin(RMin(rNorm, gNorm), bNorm)
        d == RSub(max, min)
        s == IF max = RInt(0) THEN RInt(0) ELSE RDiv(d, max)
        h6 == IF max = rNorm
              THEN RAdd(RDiv(RSub(gNorm, bNorm), d),
                        IF RLt(gNorm, bNorm) THEN RInt(6) ELSE RInt(0))
              ELSE IF max = gNorm THEN RAdd(RDiv(RSub(bNorm, rNorm), d), RInt(2))
              ELSE RAdd(RDiv(RSub(rNorm, gNorm), d), RInt(4))
        h == IF max = min THEN RInt(0) ELSE RDiv(h6, RInt(6))
    IN  [h |-> h, s |-> s, v |-> max]

----------------------------------------------------------------------------
(* parseColorData: lines 31-57. *)

\* The record of one (name, hexCode) entry: the callback of lines 42-54.
\* rgb holds the three numbers of the display string rgb(r,g,b).
colorRecord(name, hexCode) ==
    LET rgb == hexToRgb(hexCode)
        hsv == rgbToHsv(rgb.r, rgb.g, rgb.b)
    IN  [name |-> name,
         hex |-> hexCode,
         hue |-> RMul(hsv.h, RInt(360)),
         saturation |-> hsv.s,
         brightness |-> hsv.v,
         rgb |-> <<rgb.r, rgb.g, rgb.b>>]

\* The property name whose assignment on a plain object goes to the
\* inherited prototype setter, which ignores a string: no own property.
ProtoKey == <<"_", "_", "p", "r", "o", "t", "o", "_", "_">>

\* colors[name] = hex on the plain object `colors`, kept as the sequence of
\* its own properties in insertion order (the order of Object.keys for
\* names that are not array indices, as all names drawn here are).
RECURSIVE SetEntry(_, _, _)
SetEntry(colors, name, hex) ==
    IF colors = <<>> THEN <<[name |-> name, hex |-> hex]>>
    ELSE IF Head(colors).name = name THEN <<[name |-> name, hex |-> hex]>> \o Tail(colors)
    ELSE <<Head(colors)>> \o SetEntry(Tail(colors), name, hex)

colorsPut(colors, name, hex) ==
    IF name = ProtoKey THEN colors ELSE SetEntry(colors, name, hex)

\* A plausible slip: a line without a hex code is skipped instead of throwing.
RECURSIVE parseLinesSkipping(_, _)
parseLinesSkipping(lines, colors) ==
    IF lines = <<>> THEN [threw |-> FALSE, colors |-> colors]
    ELSE LET line == Head(lines)
         IN  IF line # <<>> /\ ~StartsWith(line, "#") /\ Len(Split(line, Tab)) >= 2
             THEN LET parts == Split(line, Tab)
                  IN  parseLinesSkipping(Tail(lines),
                                         colorsPut(colors, parts[1], Trim(parts[2])))
             ELSE parseLinesSkipping(Tail(lines), colors)

\* The forEach of lines 35-40 over lines[i..]: threw is TRUE when a line has
\* no second tab-separated field, so that hexCode.trim() is a TypeError.
RECURSIVE parseLines(_, _)
parseLines(lines, colors) ==
    IF lines = <<>> THEN [threw |-> FALSE, colors |-> colors]
    ELSE LET line == Head(lines)
         IN  IF line # <<>> /\ ~StartsWith(line, "#")
             THEN LET parts == Split(line, Tab)
                  IN  IF Len(parts) < 2
                      THEN [threw |-> TRUE, colors |-> colors]
                      ELSE parseLines(Tail(lines),
                                      colorsPut(colors, parts[1], Trim(parts[2])))
             ELSE parseLines(Tail(lines), colors)

parseColorData(text) ==
    LET parsed == parseLines(Split(text, Newline), <<>>)
    IN  [threw |-> parsed.threw,
         colorData |-> IF parsed.threw THEN <<>>
                       ELSE [i \in 1..Len(parsed.colors) |->
                                colorRecord(parsed.colors[i].name, parsed.colors[i].hex)]]

----------------------------------------------------------------------------
(* renderHueBar, renderSatBrightDist, renderGraphs: lines 106-177. *)

\* The value of undefined++ and of NaN++: not a number.  It stands outside
\* the counts, which are never negative.
NaN == -1

\* Math.round of a rational: the nearest integer, halves rounded up.
MathRound(x) == (2 * x.num + x.den) \div (2 * x.den)

\* hueCounts[hueIndex]++ on a JavaScript array held as a sequence (index k of
\* the array is position k + 1): an index equal to the length reads
\* undefined, stores NaN and makes the array one longer.
Increment(hueCounts, hueIndex) ==
    IF hueIndex < Len(hueCounts)
    THEN [hueCounts EXCEPT ![hueIndex + 1] = IF @ = NaN THEN NaN ELSE @ + 1]
    ELSE Append(hueCounts, NaN)

RECURSIVE countHues(_, _)
countHues(list, hueCounts) ==
    IF list = <<>> THEN hueCounts
    ELSE countHues(Tail(list), Increment(hueCounts, MathRound(Head(list).hue)))

\* The y array handed to Plotly.newPlot(hueBarDiv, ...).
renderHueBar(list) == countHues(list, [i \in 1..360 |-> 0])

\* The x, y and marker colours handed to Plotly.newPlot(satBrightDiv, ...).
renderSatBrightDist(list) ==
    [x |-> [i \in 1..Len(list) |-> list[i].saturation],
     y |-> [i \in 1..Len(list) |-> list[i].brightness],
     color |-> [i \in 1..Len(list) |-> list[i].rgb]]

NewPlot(div, list) == [op |-> "newPlot", target |-> div, colorData |-> list]

\* A plausible slip: the scatter plotted first.
renderGraphsScatterFirst(list) ==
    <<NewPlot("sat-bright-dist", list), NewPlot("hue-bar", list)>>

\* The Plotly.newPlot calls of one render, in order.
renderGraphs(list) ==
    <<NewPlot("hue-bar", list), NewPlot("sat-bright-dist", list)>>

\* The containers after the calls of one handler run.
RECURSIVE Plotted(_, _, _)
Plotted(div, state, callSeq) ==
    IF callSeq = <<>> THEN state
    ELSE LET c == Head(callSeq)
         IN  IF c.op = "newPlot" /\ c.target = div
             THEN Plotted(div,
                          [n |-> state.n + 1,
                           colorData |-> c.colorData,
                           plot |-> IF div = "hue-bar" THEN renderHueBar(c.colorData)
                                    ELSE renderSatBrightDist(c.colorData)],
                          Tail(callSeq))
             ELSE Plotted(div, state, Tail(callSeq))

----------------------------------------------------------------------------
(* new RegExp(filterTerm, 'i') and regex.test(name): lines 189-190.         *)
(* The filter texts drawn are made of letters, spaces, "." and "(": a      *)
(* letter or space matches itself up to case, "." matches any character of *)
(* a name, and a "(" that is never closed makes the pattern a SyntaxError. *)

LowerCase == <<"a", "b", "c", "d", "e", "f", "g", "h", "i", "j", "k", "l", "m",
               "n", "o", "p", "q", "r", "s", "t", "u", "v", "w", "x", "y", "z">>
UpperCase == <<"A", "B", "C", "D", "E", "F", "G", "H", "I", "J", "K", "L", "M",
               "N", "O", "P", "Q", "R", "S", "T", "U", "V", "W", "X", "Y", "Z">>

\* Canonicalize of the 'i' flag: a letter to its upper case.
Canonicalize(c) ==
    IF \E i \in 1..Len(LowerCase) : LowerCase[i] = c
    THEN UpperCase[CHOOSE i \in 1..Len(LowerCase) : LowerCase[i] = c]
    ELSE c

RegExpThrows(term) == \E i \in 1..Len(term) : term[i] = "("

\* Whether the pattern matches the name at offset `at` (0-based).
RECURSIVE MatchHere(_, _, _)
MatchHere(term, name, at) ==
    IF term = <<>> THEN TRUE
    ELSE IF at + 1 > Len(name) THEN FALSE
    ELSE /\ \/ Head(term) = "."
            \/ Canonicalize(Head(term)) = Canonicalize(name[at + 1])
         /\ MatchHere(Tail(term), name, at + 1)

\* regex.test(name) without the 'g' flag: a search from offset 0.
RECURSIVE SearchFrom(_, _, _)
SearchFrom(term, name, at) ==
    IF at > Len(name) THEN FALSE
    ELSE IF MatchHere(term, name, at) THEN TRUE
    ELSE SearchFrom(term, name, at + 1)

regexTest(term, name) == SearchFrom(term, name, 0)

\* A plausible slip: the filter result ignored, the whole list rendered.
filteredDataUnfiltered(list, term) == list

\* colorData.filter(color => regex.test(color.name))
filteredData(list, term) ==
    SelectSeq(list, LAMBDA color : regexTest(term, color.name))

----------------------------------------------------------------------------
(* The inputs: the texts the server may send, the texts typed into the     *)
(* filter box, the channels of the conversion check.                       *)

\* name<TAB>hexcode lines, a comment, an empty line, a line with no tab.
LineRed == <<"a", "\t", "#", "f", "f", "0", "0", "0", "0">>
LineGreen == <<"A", "\t", "0", "0", "f", "f", "0", "0", "\r">>
LineNearRed == <<"a", "b", "\t", "#", "F", "F", "0", "0", "0", "1">>
LineWhite == <<"a", "\t", "#", "f", "f", "f", "f", "f", "f", "\t", "x">>
LineProto == ProtoKey \o <<"\t", "#", "0", "0", "0", "0", "f", "f">>
LineComment == <<"#", " ", "c">>
LineEmpty == <<>>
LineNoTab == <<"b">>

Lines == {LineRed, LineGreen, LineNearRed, LineWhite, LineProto,
          LineComment, LineEmpty, LineNoTab}

RECURSIVE Join(_)
Join(ls) ==
    IF ls = <<>> THEN <<>>
    ELSE IF Len(ls) = 1 THEN ls[1]
    ELSE ls[1] \o <<Newline>> \o Join(Tail(ls))

Texts == {Join(ls) : ls \in UNION {[1..n -> Lines] : n \in 0..MaxLines}}

FilterTexts == {<<>>, <<" ">>, <<"a">>, <<" ", "B", " ">>, <<"a", "b">>, <<".", "B">>,
                <<"(">>, <<"a", "(">>}

Channels == (0..EdgeWidth) \cup ((255 - EdgeWidth)..255) \cup {16 * k + k : k \in 0..15}

HexDigits == <<"0", "1", "2", "3", "4", "5", "6", "7", "8", "9", "a", "b", "c", "d", "e", "f">>

\* The hex code #rrggbb of three channels.
ToHexCode(rgb) ==
    <<"#">> \o [i \in 1..6 |->
                  LET c == rgb[(i + 1) \div 2]
                  IN  HexDigits[(IF i % 2 = 1 THEN c \div 16 ELSE c % 16) + 1]]

----------------------------------------------------------------------------
(* The page: lines 1-24 and 183-197. *)

Call(op, target) == [op |-> op, target |-> target, colorData |-> <<>>]

NoPlot == [n |-> 0, colorData |-> <<>>, plot |-> <<>>]

InitPage ==
    /\ pc = "init"
    /\ response = "none"
    /\ body = "none"
    /\ data = <<>>
    /\ fetchCount = 0
    /\ logCount = 0
    /\ colorData = <<>>
    /\ listenerInstalled = FALSE
    /\ filterValue = <<>>
    /\ hueBarDiv = NoPlot
    /\ satBrightDiv = NoPlot
    /\ event = "none"
    /\ calls = <<>>
    /\ nInputs = 0

Init ==
    /\ InitPage
    /\ rgbIn = <<0, 0, 0>>
    /\ hexIn = <<>>
    /\ derived = <<>>

\* The containers and the listener follow from the calls of the handler run.
Effects ==
    /\ hueBarDiv' = Plotted("hue-bar", hueBarDiv, calls')
    /\ satBrightDiv' = Plotted("sat-bright-dist", satBrightDiv, calls')
    /\ listenerInstalled' =
          (listenerInstalled \/ \E i \in 1..Len(calls') : calls'[i].op = "addEventListener")

\* The catch block of lines 21-23.
catchError ==
    /\ pc' = "failed"
    /\ logCount' = logCount + 1
    /\ calls' = <<Call("console.error", "console")>>
    /\ UNCHANGED <<fetchCount, colorData>>

\* Lines 19-20: renderGraphs(colorData); setupFilterListener(colorData).
loadedCalls(list) ==
    renderGraphs(list) \o <<Call("addEventListener", "filter-input")>>

\* The DOMContentLoaded handler: fetchDataAndRender() up to its first await.
DOMContentLoaded ==
    /\ pc = "init"
    /\ pc' = "awaitFetch"
    /\ fetchCount' = fetchCount + 1
    /\ response' = "pending"
    /\ event' = "DOMContentLoaded"
    /\ calls' = <<Call("fetch", "./data/rgb.txt")>>
    /\ Effects
    /\ UNCHANGED <<body, data, logCount, colorData, filterValue, nInputs>>
    /\ UNCHANGED hsvVars

\* fetch(url) settles: lines 13-17.
FetchSettles(outcome) ==
    /\ pc = "awaitFetch"
    /\ response' = outcome
    /\ event' = "fetchSettled"
    /\ IF outcome = "ok"
       THEN /\ pc' = "awaitText"
            /\ body' = "pending"
            /\ calls' = <<>>
            /\ UNCHANGED <<fetchCount, logCount, colorData>>
       ELSE /\ catchError
            /\ UNCHANGED body
    /\ Effects
    /\ UNCHANGED <<data, filterValue, nInputs>>
    /\ UNCHANGED hsvVars

\* response.text() rejects: caught at line 21.
TextRejects ==
    /\ pc = "awaitText"
    /\ body' = "rejected"
    /\ event' = "textSettled"
    /\ catchError
    /\ Effects
    /\ UNCHANGED <<response, data, filterValue, nInputs>>
    /\ UNCHANGED hsvVars

\* response.text() resolves: lines 17-20, all synchronous.
TextResolves(text) ==
    /\ pc = "awaitText"
    /\ body' = "resolved"
    /\ data' = text
    /\ event' = "textSettled"
    /\ LET parsed == parseColorData(text)
       IN  IF parsed.threw
           THEN catchError
           ELSE /\ pc' = "loaded"
                /\ colorData' = parsed.colorData
                /\ calls' = loadedCalls(parsed.colorData)
                /\ UNCHANGED <<fetchCount, logCount>>
    /\ Effects
    /\ UNCHANGED <<response, filterValue, nInputs>>
    /\ UNCHANGED hsvVars

\* The listener of lines 184-193 on filterInput.value = value: the calls it
\* makes.  An invalid pattern throws at line 189, before any render.
inputListener(list, value) ==
    LET filterTerm == Trim(value)
    IN  IF filterTerm = <<>> THEN renderGraphs(list)
        ELSE IF RegExpThrows(filterTerm) THEN <<>>
        ELSE renderGraphs(filteredData(list, filterTerm))

\* A plausible slip: the listener keeps the filtered list as the new list.
InputEventAccumulating(value) ==
    /\ nInputs < MaxInputs
    /\ nInputs' = nInputs + 1
    /\ filterValue' = value
    /\ event' = "input"
    /\ calls' = IF listenerInstalled THEN inputListener(colorData, value) ELSE <<>>
    /\ colorData' = IF calls' = <<>> THEN colorData ELSE calls'[1].colorData
    /\ Effects
    /\ UNCHANGED <<pc, response, body, data, fetchCount, logCount>>
    /\ UNCHANGED hsvVars

\* An input event on the filter box, whose value is now `value`.
InputEvent(value) ==
    /\ nInputs < MaxInputs
    /\ nInputs' = nInputs + 1
    /\ filterValue' = value
    /\ event' = "input"
    /\ calls' = IF listenerInstalled THEN inputListener(colorData, value) ELSE <<>>
    /\ Effects
    /\ UNCHANGED <<pc, response, body, data, fetchCount, logCount, colorData>>
    /\ UNCHANGED hsvVars

Next ==
    \/ DOMContentLoaded
    \/ \E outcome \in {"ok", "notOk", "rejected"} : FetchSettles(outcome)
    \/ TextRejects
    \/ \E text \in Texts : TextResolves(text)
    \/ \E value \in FilterTexts : InputEvent(value)

Spec == Init /\ [][Next]_vars

----------------------------------------------------------------------------
(* The conversion on its own: a hex code written from three channels is    *)
(* handed to the record builder of parseColorData.                         *)

InitHsv ==
    /\ InitPage
    /\ rgbIn \in Channels \X Channels \X Channels
    /\ hexIn = ToHexCode(rgbIn)
    /\ derived = <<>>

Derive ==
    /\ derived = <<>>
    /\ derived' = <<colorRecord(<<"c">>, hexIn)>>
    /\ UNCHANGED <<rgbIn, hexIn>>
    /\ UNCHANGED pageVars

NextHsv == Derive

SpecHsv == InitHsv /\ [][NextHsv]_vars

----------------------------------------------------------------------------
(* What the claims speak of, stated apart from the code above. *)

\* The lines of a text that carry an entry: not empty, not a comment.
EntryLines(text) ==
    SelectSeq(Split(text, Newline), LAMBDA line : line # <<>> /\ Head(line) # "#")

HasTab(line) == \E i \in 1..Len(line) : line[i] = Tab

\* A text with an entry line that has no tab-separated hex code.
Malformed(text) ==
    \E i \in 1..Len(EntryLines(text)) : ~HasTab(EntryLines(text)[i])

NameOfLine(line) == SubSeq(line, 1, IndexOf(line, Tab, 1) - 1)

\* The hex code of an entry line: its second field, without the white space around it.
HexOfLine(line) ==
    LET rest == SubSeq(line, IndexOf(line, Tab, 1) + 1, Len(line))
        stop == IndexOf(rest, Tab, 1)
    IN  Trim(IF stop = 0 THEN rest ELSE SubSeq(rest, 1, stop - 1))

SameLetter(c, d) ==
    \/ c = d
    \/ \E k \in 1..Len(LowerCase) : {c, d} = {LowerCase[k], UpperCase[k]}

\* The pattern (letters, spaces and "." for any character) occurs in the
\* name, the case of letters ignored.
MatchesIgnoringCase(pattern, name) ==
    \E o \in 0..(Len(name) - Len(pattern)) :
        \A i \in 1..Len(pattern) :
            pattern[i] = "." \/ SameLetter(pattern[i], name[o + i])

Range(seq) == {seq[i] : i \in 1..Len(seq)}

PlotCalls == SelectSeq(calls, LAMBDA c : c.op = "newPlot")

\* The sum of the counts lo..hi of a histogram; not a number when an entry
\* is not.
RECURSIVE SumRange(_, _, _)
SumRange(counts, lo, hi) ==
    IF lo > hi THEN 0
    ELSE IF lo = hi THEN counts[lo]
    ELSE LET mid == (lo + hi) \div 2
             left == SumRange(counts, lo, mid)
             right == SumRange(counts, mid + 1, hi)
         IN  IF left = NaN \/ right = NaN THEN NaN ELSE left + right

SumCounts(counts) == SumRange(counts, 1, Len(counts))

Max3(a, b, c) == IF a >= b /\ a >= c THEN a ELSE IF b >= c THEN b ELSE c
Min3(a, b, c) == IF a <= b /\ a <= c THEN a ELSE IF b <= c THEN b ELSE c

----------------------------------------------------------------------------
(* The claims. *)

\* C1: the counts of the hue histogram plotted by renderHueBar sum to the
\* number of records in the list it was given: every record is counted once.
C1_CountsSumToSize ==
    hueBarDiv.n > 0 => SumCounts(hueBarDiv.plot) = Len(hueBarDiv.colorData)

\* C2: for the channels r, g, b the record holds the standard conversion:
\* v = max/255; s = 0 when max = 0 and (max-min)/max otherwise; hue = 0 when
\* max = min, and otherwise 60*((g-b)/d mod 6) when r is the max,
\* 60*((b-r)/d + 2) when g is, 60*((r-g)/d + 4) when b is (so that tied
\* channels agree); red has hue 0, green hue 120, white saturation 0 and hue 0.
C2_StandardConversion ==
    derived # <<>> =>
        LET r == rgbIn[1]
            g == rgbIn[2]
            b == rgbIn[3]
            hi == Max3(r, g, b)
            lo == Min3(r, g, b)
            d == hi - lo
            hue == derived[1].hue
            sat == derived[1].saturation
            val == derived[1].brightness
        IN  /\ val.num * 255 = hi * val.den
            /\ hi = 0 => sat = RInt(0)
            /\ hi # 0 => sat.num * hi = d * sat.den
            /\ hi = lo => hue = RInt(0)
            /\ (hi # lo /\ r = hi) => hue.num * d = ((60 * (g - b)) % (360 * d)) * hue.den
            /\ (hi # lo /\ g = hi) => hue.num * d = (60 * (b - r) + 120 * d) * hue.den
            /\ (hi # lo /\ b = hi) => hue.num * d = (60 * (r - g) + 240 * d) * hue.den
            /\ rgbIn = <<255, 0, 0>> => hue = RInt(0)
            /\ rgbIn = <<0, 255, 0>> => hue = RInt(120)
            /\ rgbIn = <<255, 255, 255>> => (sat = RInt(0) /\ hue = RInt(0))

\* C2 witness: pure green has been converted, by the green branch, to hue 120.
C2_Witness ==
    /\ derived # <<>>
    /\ rgbIn = <<0, 255, 0>>
    /\ derived[1].hue = RInt(120)
    /\ derived[1].rgb = <<0, 255, 0>>

\* C3: after an input event whose trimmed value is a non-empty pattern, every
\* record rendered is one of the loaded records and its name matches the
\* pattern, case ignored.
C3_FilterRendersMatchingSubset ==
    (event = "input" /\ pc = "loaded" /\ Trim(filterValue) # <<>>) =>
        /\ \A i \in 1..Len(PlotCalls) :
              \A color \in Range(PlotCalls[i].colorData) :
                  /\ color \in Range(parseColorData(data).colorData)
                  /\ MatchesIgnoringCase(Trim(filterValue), color.name)
        /\ PlotCalls # <<>> =>
              /\ hueBarDiv.colorData = PlotCalls[1].colorData
              /\ satBrightDiv.colorData = PlotCalls[1].colorData

\* C3 witness: the pattern B, typed with spaces around it, has rendered some
\* but not all of the loaded records, among them one named in lower case.
C3_Witness ==
    /\ event = "input"
    /\ pc = "loaded"
    /\ filterValue = <<" ", "B", " ">>
    /\ PlotCalls # <<>>
    /\ Len(hueBarDiv.colorData) >= 1
    /\ Len(hueBarDiv.colorData) < Len(colorData)
    /\ \E color \in Range(hueBarDiv.colorData) : color.name = <<"a", "b">>

\* C4: when the fetch rejects, the status is not OK, the text cannot be read
\* or parsing throws, the failure is logged exactly once, one fetch only has
\* been issued, neither chart has been rendered and no listener is installed,
\* and this stays so whatever happens next.
C4_FailureCaughtOnce ==
    (\/ response \in {"rejected", "notOk"}
     \/ body = "rejected"
     \/ (body = "resolved" /\ Malformed(data))) =>
        /\ pc = "failed"
        /\ logCount = 1
        /\ fetchCount = 1
        /\ hueBarDiv.n = 0
        /\ satBrightDiv.n = 0
        /\ hueBarDiv.plot = <<>>
        /\ ~listenerInstalled
        /\ Range(calls) \subseteq {[op |-> "console.error", target |-> "console", colorData |-> <<>>]}

\* C4 witness: a text with a well-formed line and a line without a tab has
\* failed to parse, and an input event has been delivered since.
C4_Witness ==
    /\ pc = "failed"
    /\ body = "resolved"
    /\ Malformed(data)
    /\ \E i \in 1..Len(EntryLines(data)) : HasTab(EntryLines(data)[i])
    /\ event = "input"
    /\ logCount = 1

\* C5: every record derived from channels in 0..255 has 0 <= hue < 360,
\* 0 <= saturation <= 1 and 0 <= brightness <= 1.
C5_RecordRanges ==
    derived # <<>> =>
        /\ RLe(RInt(0), derived[1].hue)
        /\ RLt(derived[1].hue, RInt(360))
        /\ RLe(RInt(0), derived[1].saturation)
        /\ RLe(derived[1].saturation, RInt(1))
        /\ RLe(RInt(0), derived[1].brightness)
        /\ RLe(derived[1].brightness, RInt(1))

\* C5 witness: a red-dominant colour with g < b, whose hue is wrapped to just
\* below 360, has been converted.
C5_Witness ==
    /\ derived # <<>>
    /\ rgbIn = <<255, 0, 1>>
    /\ RLt(RInt(359), derived[1].hue)
    /\ derived[1].saturation = RInt(1)

\* C6: every input event after the data has loaded, whatever the text,
\* re-renders both containers, both from the same list.
C6_InputRerendersBoth ==
    (event = "input" /\ pc = "loaded") =>
        \E i, j \in 1..Len(calls) :
            /\ calls[i].op = "newPlot" /\ calls[i].target = "hue-bar"
            /\ calls[j].op = "newPlot" /\ calls[j].target = "sat-bright-dist"
            /\ calls[i].colorData = calls[j].colorData

\* C7: the bucket index of every record rendered lies in 0..359, and the
\* histogram plotted has exactly 360 buckets, each a non-negative count.
C7_HistogramFixedSize ==
    hueBarDiv.n > 0 =>
        /\ \A color \in Range(hueBarDiv.colorData) : MathRound(color.hue) \in 0..359
        /\ Len(hueBarDiv.plot) = 360
        /\ \A i \in 1..Len(hueBarDiv.plot) : hueBarDiv.plot[i] >= 0

\* C8: filtering never changes the loaded records: the list an input event
\* renders is determined by the current filter text and the loaded list
\* alone, and an empty trimmed text renders the whole loaded list.
C8_FilterLeavesLoadedRecords ==
    pc = "loaded" =>
        LET loaded == parseColorData(data).colorData
            expected == IF Trim(filterValue) = <<>> THEN loaded
                        ELSE SelectSeq(loaded,
                                 LAMBDA color : MatchesIgnoringCase(Trim(filterValue), color.name))
        IN  /\ colorData = loaded
            /\ (event = "input" /\ PlotCalls # <<>>) =>
                  /\ \A i \in 1..Len(PlotCalls) : PlotCalls[i].colorData = expected
                  /\ hueBarDiv.colorData = expected
                  /\ satBrightDiv.colorData = expected
            /\ (event = "input" /\ Trim(filterValue) = <<>>) =>
                  /\ PlotCalls # <<>>
                  /\ hueBarDiv.colorData = loaded

\* C8 witness: after an earlier input event, an input of white space only
\* has rendered the whole loaded list of two or more records again.
C8_Witness ==
    /\ pc = "loaded"
    /\ event = "input"
    /\ nInputs >= 2
    /\ filterValue = <<" ">>
    /\ hueBarDiv.n = 3
    /\ Len(colorData) >= 2
    /\ satBrightDiv.colorData = colorData

\* C9: exactly one fetch is issued; nothing is rendered before the fetch has
\* completed with an OK status and its text has been parsed; the first
\* render, of the full list, precedes the installation of the listener, so
\* that an input event before the data has loaded renders nothing; and in
\* every render the hue bar is plotted before the scatter.
C9_OneFetchThenRender ==
    /\ fetchCount = (IF pc = "init" THEN 0 ELSE 1)
    /\ (hueBarDiv.n > 0 \/ satBrightDiv.n > 0) =>
          (response = "ok" /\ body = "resolved" /\ pc = "loaded")
    /\ (event = "textSettled" /\ pc = "loaded") =>
          /\ Len(calls) = 3
          /\ calls[1] = NewPlot("hue-bar", parseColorData(data).colorData)
          /\ calls[2] = NewPlot("sat-bright-dist", parseColorData(data).colorData)
          /\ calls[3].op = "addEventListener"
    /\ listenerInstalled => (pc = "loaded" /\ hueBarDiv.n >= 1 /\ satBrightDiv.n >= 1)
    /\ (event = "input" /\ pc # "loaded") => (calls = <<>> /\ hueBarDiv.n = 0)
    /\ \/ PlotCalls = <<>>
       \/ /\ Len(PlotCalls) = 2
          /\ PlotCalls[1].target = "hue-bar"
          /\ PlotCalls[2].target = "sat-bright-dist"

\* C9 witness: an input event arrived while the text was awaited and rendered
\* nothing; then the text resolved, both charts were plotted and the listener
\* installed.
C9_Witness ==
    /\ event = "textSettled"
    /\ pc = "loaded"
    /\ nInputs >= 1
    /\ hueBarDiv.n = 1
    /\ satBrightDiv.n = 1
    /\ listenerInstalled
    /\ Len(colorData) >= 1

\* C10: the records returned by parseColorData have one record per distinct
\* name among the entry lines and none besides, no name twice, and each
\* carries the hex code of the last line with its name.
C10_NameIsUniqueKey ==
    (pc = "loaded" /\ ~Malformed(data)) =>
        LET entries == EntryLines(data)
        IN  /\ {colorData[i].name : i \in 1..Len(colorData)} =
                  {NameOfLine(entries[i]) : i \in 1..Len(entries)}
            /\ \A i, j \in 1..Len(colorData) :
                  colorData[i].name = colorData[j].name => i = j
            /\ \A i \in 1..Len(colorData) :
                  \E k \in 1..Len(entries) :
                      /\ NameOfLine(entries[k]) = colorData[i].name
                      /\ HexOfLine(entries[k]) = colorData[i].hex
                      /\ \A m \in (k + 1)..Len(entries) :
                            NameOfLine(entries[m]) # colorData[i].name

====
